---- MODULE Spec2Model ----
(***************************************************************************)
(* The MPRIS bridge of ncspot (src/mpris.rs): the handlers registered on   *)
(* the D-Bus tree, translated one by one, acting on the playback engine    *)
(* (Spotify), the play queue (Queue), the UI event manager and the catalog *)
(* API, which live in other modules of the crate.                          *)
(***************************************************************************)
EXTENDS Integers, Sequences, FiniteSets, TLC

VARIABLES
    items,      \* Queue: the queued playables, in order
    current,    \* Queue: index (0-based) of the current item, None when there is none
    shuffle,    \* Queue: the shuffle flag
    repeat,     \* Queue: the RepeatSetting
    status,     \* Spotify: the PlayerEvent last reported by the engine
    progress,   \* Spotify: the elapsed position of the current item, ms
    volume,     \* Spotify: the stored volume, u16
    worker,     \* the thread running run_dbus_server: "running" or "panicked"
    profile,    \* the build: "debug" (arithmetic overflow panics) or "release" (it wraps)
    pc,         \* where the loop of run_dbus_server stands: "incoming", "handling"
                \* (inside a handler started by conn.incoming) or "poll"
    last,       \* the inbound request handled in this iteration: method, argument,
                \* the state it found, the calls it made on its collaborators
    chan,       \* the mpsc channel of MprisState notifications, oldest first
    emitted,    \* the PropertiesChanged signal sent by the latest poll, None without one
    ui,         \* the thread calling MprisManager::update: "running" or "panicked"
    pushed,     \* history: how many notifications update() has put into the channel
    signals,    \* history: how many PropertiesChanged signals the polls have sent
    waits,      \* history: for each pending notification, how many polls left it pending
    active      \* the handlers that have been started and have not returned yet

vars == <<items, current, shuffle, repeat, status, progress, volume, worker, profile, pc, last,
          chan, emitted, ui, pushed, signals, waits, active>>

(***************************************************************************)
(* Option<T>: None is the empty sequence, Some(x) the one-element one.     *)
(***************************************************************************)
None == <<>>
Some(x) == <<x>>
IsSome(o) == o # None
Unwrap(o) == o[1]
UnwrapOr(o, d) == IF IsSome(o) THEN o[1] ELSE d

(***************************************************************************)
(* Machine integers.  TLC's integers are 32-bit, so an i64 or u32 value    *)
(* outside the i32 range is written in two parts: [k, v] stands for        *)
(* k * 2^32 + v with v in the i32 range.  The low 32 bits of the value     *)
(* are those of v, which is what the `as i32` and `as u32` casts keep.     *)
(***************************************************************************)
MaxI32 == 2147483647
MinI32 == -MaxI32 - 1

Wide(k, v) == [k |-> k, v |-> v]
W(n) == Wide(0, n)
WLess(a, b) == a.k < b.k \/ (a.k = b.k /\ a.v < b.v)
WNeg(a) == WLess(a, W(0))
\* the exact sum of a wide value and a small non-negative one
WPlus(a, n) ==
    IF a.v > MaxI32 - n
    THEN Wide(a.k + 1, (a.v + MinI32) + (n + MinI32))
    ELSE Wide(a.k, a.v + n)

\* `x as i32`: the low 32 bits, read as signed
AsI32(a) == a.v
\* `x as u32`: the low 32 bits, read as unsigned
AsU32(a) == IF a.v >= 0 THEN Wide(0, a.v) ELSE Wide(1, a.v)

\* a + b on i32 overflows when the exact sum leaves the i32 range
AddOverflowsI32(a, b) ==
    \/ (b > 0 /\ a > MaxI32 - b)
    \/ (b < 0 /\ a < MinI32 - b)
\* the two's complement sum a release build computes
WrappingAddI32(a, b) ==
    IF b > 0 /\ a > MaxI32 - b THEN (a + MinI32) + (b + MinI32)
    ELSE IF b < 0 /\ a < MinI32 - b THEN (a - MinI32) + (b - MinI32)
    ELSE a + b

(***************************************************************************)
(* An int64 count of microseconds is written ms * 1000 + us, with          *)
(* |us| < 1000 and us of the sign of the whole, so that Rust's truncating  *)
(* `/ 1000` is its ms part.                                                *)
(***************************************************************************)
Micros(ms, us) == [ms |-> ms, us |-> us]
DivThousand(m) == m.ms

(***************************************************************************)
(* Playables (crate::model): a Track or an Episode.  Optional fields are   *)
(* Options; durations are u32 milliseconds.                                *)
(***************************************************************************)
Track(id, title, duration, cover_url, album, url) ==
    [type |-> "Track", id |-> id, title |-> title, duration |-> duration,
     cover_url |-> cover_url, album |-> album,
     album_artists |-> IF IsSome(album) THEN <<"Artist A">> ELSE <<>>,
     artists |-> <<"Artist A", "Artist B">>,
     disc_number |-> 1, track_number |-> 2, url |-> url]
Episode(id, name, duration, cover_url) ==
    [type |-> "Episode", id |-> Some(id), name |-> name, duration |-> duration,
     cover_url |-> cover_url, url |-> None]

\* a full track, as the catalog returns it
T1 == Track(Some("t1"), "One", 8000, Some("https://i.scdn.co/image/c1"),
            Some("Album"), Some("https://open.spotify.com/track/t1"))
\* a simplified track (from an album listing): no cover_url
T2 == Track(Some("t2"), "Two", 6000, None,
            Some("Album"), Some("https://open.spotify.com/track/t2"))
\* a local file: no id, no cover, no album
\* the same track as the catalog returns it in full
T2Full == Track(Some("t2"), "Two", 6000, Some("https://i.scdn.co/image/c2"),
                Some("Album"), Some("https://open.spotify.com/track/t2"))
T3 == Track(None, "Three", 7000, None, None, None)
E1 == Episode("e1", "Ep 1", 9000, Some("https://i.scdn.co/image/s1"))
E2 == Episode("e2", "Ep 2", 9000, Some("https://i.scdn.co/image/s1"))
E3 == Episode("e3", "Ep 3", 9000, None)

\* Playable::track(): the Track of a Playable::Track, None for an episode
PlayableTrack(p) == IF p.type = "Track" THEN Some(p) ELSE None

(***************************************************************************)
(* The collaborators.  A world w gathers the state of the queue, the       *)
(* engine and the event manager while one handler runs; every operation    *)
(* adds the call to w.calls.                                               *)
(***************************************************************************)
Did(w, call) == [w EXCEPT !.calls = Append(@, call)]

\* Spotify
get_current_progress(w) == w.progress
get_current_status(w) == w.status
spotify_volume(w) == w.volume
spotify_seek(w, position_ms) ==
    [Did(w, <<"seek", position_ms>>) EXCEPT !.progress = position_ms]
spotify_set_volume(w, vol) ==
    [Did(w, <<"set_volume", vol>>) EXCEPT !.volume = vol]

\* EventManager
event_trigger(w) == Did(w, <<"trigger">>)

\* Queue
queue_get_current(w) ==
    IF IsSome(w.current) THEN Some(w.items[Unwrap(w.current) + 1]) ELSE None
queue_get_shuffle(w) == w.shuffle
queue_get_repeat(w) == w.repeat
queue_set_repeat(w, setting) ==
    [Did(w, <<"set_repeat", setting>>) EXCEPT !.repeat = setting]
queue_set_shuffle(w, flag) ==
    [Did(w, <<"set_shuffle", flag>>) EXCEPT !.shuffle = flag]
\* start playing the item at index, when there is one
StartAt(w, index) ==
    IF index < Len(w.items)
    THEN [w EXCEPT !.current = Some(index), !.status = "Playing", !.progress = 0]
    ELSE w
queue_play(w, index, reshuffle, shuffle_index) ==
    StartAt(Did(w, <<"play", index, reshuffle, shuffle_index>>), index)
queue_previous(w) ==
    LET d == Did(w, <<"previous">>)
    IN  IF IsSome(w.current) /\ Unwrap(w.current) > 0
        THEN StartAt(d, Unwrap(w.current) - 1)
        ELSE d
queue_next(w, manual) ==
    LET d == Did(w, <<"next", manual>>)
    IN  IF IsSome(w.current) /\ Unwrap(w.current) + 1 < Len(w.items)
        THEN StartAt(d, Unwrap(w.current) + 1)
        ELSE [d EXCEPT !.status = "Stopped", !.progress = 0]
queue_clear(w) ==
    [Did(w, <<"clear">>) EXCEPT !.items = <<>>, !.current = None,
                                 !.status = "Stopped", !.progress = 0]
queue_append(w, playable) ==
    [Did(w, <<"append", playable>>) EXCEPT !.items = Append(@, playable)]
\* the index at which append_next inserts, which it returns
append_next_index(w) ==
    IF IsSome(w.current) THEN Unwrap(w.current) + 1 ELSE Len(w.items)
queue_append_next(w, tracks) ==
    LET first == append_next_index(w)
    IN  [Did(w, <<"append_next", tracks>>) EXCEPT
            !.items = SubSeq(@, 1, first) \o tracks \o SubSeq(@, first + 1, Len(@))]

(***************************************************************************)
(* The state a handler finds, as a world; a panic ends the handler (and    *)
(* the thread) where it happens, keeping the calls made before it.         *)
(***************************************************************************)
World ==
    [items |-> items, current |-> current, shuffle |-> shuffle, repeat |-> repeat,
     status |-> status, progress |-> progress, volume |-> volume,
     overflow_checks |-> (profile = "debug"),
     calls |-> <<>>, reply |-> None, panicked |-> FALSE]
\* iter.append(value): the value a property read answers with
Reply(w, value) == [w EXCEPT !.reply = Some(value)]
Panic(w) == [w EXCEPT !.panicked = TRUE]

\* std::time::Duration, kept in whole milliseconds
as_secs(d) == d \div 1000
subsec_millis(d) == d % 1000

(***************************************************************************)
(* Previous                                                                *)
(***************************************************************************)
FiveSecs == 5000
PreviousSkipsBack_mutant(w) == get_current_progress(w) <= FiveSecs
PreviousSkipsBack(w) == get_current_progress(w) < FiveSecs
method_previous(w) ==
    IF PreviousSkipsBack(w) THEN queue_previous(w) ELSE spotify_seek(w, 0)

(***************************************************************************)
(* Seek(offset: i64 micros)                                                *)
(***************************************************************************)
\* a + b + c on i32: None when a build with overflow checks panics
SeekSum(a, b, c, overflow_checks) ==
    LET ab == WrappingAddI32(a, b)
    IN  IF overflow_checks /\ (AddOverflowsI32(a, b) \/ AddOverflowsI32(ab, c))
        THEN None
        ELSE Some(WrappingAddI32(ab, c))
Max(a, b) == IF a >= b THEN a ELSE b
SeekInRange(new_position, duration) == WLess(new_position, W(duration))
method_seek(w, arg) ==
    LET cur == queue_get_current(w)
    IN  IF ~IsSome(cur) THEN w
        ELSE
          LET current_track == Unwrap(cur)
              offset == UnwrapOr(arg, Micros(W(0), 0))
              prog == get_current_progress(w)
              sum == SeekSum(AsI32(W(as_secs(prog) * 1000)),
                             subsec_millis(prog),
                             AsI32(DivThousand(offset)),
                             w.overflow_checks)
          IN  IF ~IsSome(sum) THEN Panic(w)
              ELSE
                LET new_position == AsU32(W(Max(Unwrap(sum), 0)))
                    duration == current_track.duration
                IN  IF SeekInRange(new_position, duration)
                    THEN spotify_seek(w, new_position.v)
                    ELSE queue_next(w, TRUE)

(***************************************************************************)
(* SetPosition(track_id, position: i64 micros)                             *)
(***************************************************************************)
SetPositionInRange(position, duration) == WLess(position, W(duration))
method_set_position(w, arg) ==
    LET cur == queue_get_current(w)
    IN  IF ~IsSome(cur) THEN w
        ELSE
          LET current_track == Unwrap(cur)
              position == AsU32(DivThousand(UnwrapOr(arg, Micros(W(0), 0))))
              duration == current_track.duration
          IN  IF SetPositionInRange(position, duration)
              THEN spotify_seek(w, position.v)
              ELSE w

(***************************************************************************)
(* Strings (str, String): sequences of ASCII characters, indexed from 0 as *)
(* in Rust.                                                                *)
(***************************************************************************)
CharAt(s, i) == SubSeq(s, i + 1, i + 1)
\* whether pat occurs in s at byte index i
MatchesAt(s, i, pat) ==
    i + Len(pat) <= Len(s) /\ SubSeq(s, i + 1, i + Len(pat)) = pat
contains(s, pat) == \E i \in 0..Len(s) : MatchesAt(s, i, pat)
SetMax(S) == CHOOSE x \in S : \A y \in S : y <= x
SetMin(S) == CHOOSE x \in S : \A y \in S : x <= y
\* str::rfind(char): the index of the last occurrence
rfind(s, ch) ==
    LET hits == {i \in 0..(Len(s) - 1) : CharAt(s, i) = ch}
    IN  IF hits = {} THEN None ELSE Some(SetMax(hits))
\* &s[begin..end]: None stands for the panic of a range that is out of bounds
\* or starts after its end
Slice(s, begin, end) ==
    IF begin > end \/ end > Len(s) THEN None ELSE Some(SubSeq(s, begin + 1, end))

(***************************************************************************)
(* The link pattern of OpenUri,                                            *)
(*   https?://open\.spotify\.com(/user/\S+)?                               *)
(*       /(album|track|playlist|show|episode)/(.+)(\?si=\S+)?              *)
(* matched as the regex crate does: the leftmost match, every quantifier   *)
(* greedy, alternatives tried in order.                                    *)
(***************************************************************************)
LinkKinds == <<"album", "track", "playlist", "show", "episode">>
IsSpace(c) == c \in {" ", "\t", "\n", "\r", "\f"}
\* `.` matches any character but the line feed
IsDot(c) == c # "\n"
\* the index after `https?://open\.spotify\.com` matched at i, None when it does not match
HostEnd(s, i) ==
    IF MatchesAt(s, i, "https://open.spotify.com") THEN Some(i + 24)
    ELSE IF MatchesAt(s, i, "http://open.spotify.com") THEN Some(i + 23)
    ELSE None
\* the end of the greedy `(.+)` that starts at from: the end of the line
DotPlusEnd(s, from) ==
    SetMin({e \in from..Len(s) : e = Len(s) \/ ~IsDot(CharAt(s, e))})
\* groups 2 and 3, the id running from index from to index to
KindIdGroups(s, kind, from, to) ==
    IF to > from THEN Some([kind |-> kind, id |-> SubSeq(s, from + 1, to)]) ELSE None
KindIdOf(s, j, ks) ==
    IF ks = {} THEN None
    ELSE KindIdGroups(s, LinkKinds[SetMin(ks)], j + Len(LinkKinds[SetMin(ks)]) + 2,
                      DotPlusEnd(s, j + Len(LinkKinds[SetMin(ks)]) + 2))
\* `/(album|...)/(.+)(\?si=\S+)?` matched at j: groups 2 and 3.  The greedy `.+`
\* runs to the end of the line, and the optional last group then matches nothing.
KindAndId(s, j) ==
    KindIdOf(s, j, {n \in 1..Len(LinkKinds) : MatchesAt(s, j, "/" \o LinkKinds[n] \o "/")})
WithUser(s, j, ends) ==
    IF ends # {} THEN KindAndId(s, SetMax(ends)) ELSE KindAndId(s, j)
\* the rest of the pattern after the host, matched at j: with the optional
\* `/user/\S+` first, its `\S+` as long as the rest still matches, then without it
AfterHost(s, j) ==
    WithUser(s, j, {e \in (j + 7)..Len(s) :
                      /\ MatchesAt(s, j, "/user/")
                      /\ \A i \in (j + 6)..(e - 1) : ~IsSpace(CharAt(s, i))
                      /\ IsSome(KindAndId(s, e))})
AfterHostEnd(s, h) == IF IsSome(h) THEN AfterHost(s, Unwrap(h)) ELSE None
\* the whole pattern matched at i
MatchAt(s, i) == AfterHostEnd(s, HostEnd(s, i))
FirstMatch(s, starts) == IF starts = {} THEN None ELSE MatchAt(s, SetMin(starts))
\* Regex::captures: groups 2 and 3 of the leftmost match, None when nothing matches
regex_captures(s) == FirstMatch(s, {i \in 0..Len(s) : IsSome(MatchAt(s, i))})

(***************************************************************************)
(* UriType::from_uri (crate::spotify): the kind of a canonical             *)
(* spotify:<kind>:<id> URI, None for anything else.                        *)
(***************************************************************************)
UriKinds == <<"album", "artist", "track", "playlist", "show", "episode">>
from_uri(uri) ==
    LET ks == {n \in 1..Len(UriKinds) : MatchesAt(uri, 0, "spotify:" \o UriKinds[n] \o ":")}
    IN  IF ks = {} THEN None ELSE Some(UriKinds[SetMin(ks)])

(***************************************************************************)
(* The catalog (spotify.api), as this model stocks it.  A fetch answers    *)
(* None (no such record, or the request failed) or Some(record); the track *)
(* or episode list of an album, playlist or show is itself an Option.      *)
(***************************************************************************)
WithList(list) == {[tracks |-> Some(list)], [tracks |-> None]}
CatalogRecords(kind, id) ==
    CASE kind = "album" /\ id = "a1" -> WithList(<<T2, T1>>)
      [] kind = "playlist" /\ id = "p1" -> WithList(<<T1, T2, T3>>)
      [] kind = "playlist" /\ id = "p0" -> {[tracks |-> Some(<<>>)]}
      [] kind = "show" /\ id = "s1" -> WithList(<<E1, E2, E3>>)
      [] kind = "track" /\ id = "t1" -> {T1}
      [] kind = "track" /\ id = "t2" -> {T2Full}
      [] kind = "episode" /\ id = "e1" -> {E1}
      [] kind = "artist" /\ id = "r1" -> {<<T1, T2>>}
      [] OTHER -> {}
api_answers(kind, id) == {None} \cup {Some(r) : r \in CatalogRecords(kind, id)}
api_fetch(w, kind, id) == Did(w, <<"api", kind, id>>)

(***************************************************************************)
(* OpenUri(uri: string)                                                    *)
(***************************************************************************)
Reverse(list) == [i \in 1..Len(list) |-> list[Len(list) + 1 - i]]

\* lines 561-578: the canonical URI, the id after its last colon, its kind;
\* panicked when the handler does not get that far
ParsePanic == [panicked |-> TRUE, uri_type |-> None, id |-> ""]
\* line 577-578; the slice is None when the range panics
IdAndType(uri, id) ==
    IF ~IsSome(id) THEN ParsePanic
    ELSE [panicked |-> FALSE, uri_type |-> from_uri(uri), id |-> Unwrap(id)]
SplitUri(uri) ==
    IdAndType(uri, Slice(uri, UnwrapOr(rfind(uri, ":"), 0) + 1, Len(uri)))
\* lines 565-569; captures(s).unwrap() panics when nothing matches
FromCaptures(captures) ==
    IF ~IsSome(captures) THEN ParsePanic
    ELSE SplitUri("spotify:" \o Unwrap(captures).kind \o ":" \o Unwrap(captures).id)
Rewritten(s) ==
    IF contains(s, "open.spotify.com") THEN FromCaptures(regex_captures(s)) ELSE SplitUri(s)
ParseUri(uri_data) ==
    IF IsSome(uri_data) THEN Rewritten(Unwrap(uri_data)) ELSE SplitUri("")

open_album(w, id, answer) ==
    LET w1 == api_fetch(w, "album", id)
    IN  IF IsSome(answer) /\ IsSome(Unwrap(answer).tracks)
        THEN LET t == Unwrap(Unwrap(answer).tracks)
                 should_shuffle == queue_get_shuffle(w1)
                 w2 == queue_clear(w1)
                 index == append_next_index(w2)
                 w3 == queue_append_next(w2, t)
             IN  queue_play(w3, index, should_shuffle, should_shuffle)
        ELSE w1

open_track(w, id, answer) ==
    LET w1 == api_fetch(w, "track", id)
    IN  IF IsSome(answer)
        THEN queue_play(queue_append(queue_clear(w1), Unwrap(answer)), 0, FALSE, FALSE)
        ELSE w1

open_playlist_mutant(w, id, answer) ==
    LET w1 == api_fetch(w, "playlist", id)
    IN  IF IsSome(answer) /\ IsSome(Unwrap(answer).tracks)
        THEN LET tracks == Unwrap(Unwrap(answer).tracks)
                 should_shuffle == queue_get_shuffle(w1)
                 index == append_next_index(w1)
                 w3 == queue_append_next(w1, tracks)
             IN  queue_play(w3, index, should_shuffle, should_shuffle)
        ELSE w1
open_playlist(w, id, answer) ==
    LET w1 == api_fetch(w, "playlist", id)
    IN  IF IsSome(answer) /\ IsSome(Unwrap(answer).tracks)
        THEN LET tracks == Unwrap(Unwrap(answer).tracks)
                 should_shuffle == queue_get_shuffle(w1)
                 w2 == queue_clear(w1)
                 index == append_next_index(w2)
                 w3 == queue_append_next(w2, tracks)
             IN  queue_play(w3, index, should_shuffle, should_shuffle)
        ELSE w1

open_show_mutant(w, id, answer) ==
    LET w1 == api_fetch(w, "show", id)
    IN  IF IsSome(answer) /\ IsSome(Unwrap(answer).tracks)
        THEN LET e == Unwrap(Unwrap(answer).tracks)
                 should_shuffle == queue_get_shuffle(w1)
                 w2 == queue_clear(w1)
                 index == append_next_index(w2)
                 w3 == queue_append_next(w2, e)
             IN  queue_play(w3, index, should_shuffle, should_shuffle)
        ELSE w1
open_show(w, id, answer) ==
    LET w1 == api_fetch(w, "show", id)
    IN  IF IsSome(answer) /\ IsSome(Unwrap(answer).tracks)
        THEN LET e == Unwrap(Unwrap(answer).tracks)
                 should_shuffle == queue_get_shuffle(w1)
                 w2 == queue_clear(w1)
                 ep == Reverse(e)
                 index == append_next_index(w2)
                 w3 == queue_append_next(w2, ep)
             IN  queue_play(w3, index, should_shuffle, should_shuffle)
        ELSE w1

open_episode(w, id, answer) ==
    LET w1 == api_fetch(w, "episode", id)
    IN  IF IsSome(answer)
        THEN queue_play(queue_append(queue_clear(w1), Unwrap(answer)), 0, FALSE, FALSE)
        ELSE w1

open_artist_mutant(w, id, answer) ==
    LET w1 == queue_clear(api_fetch(w, "artist", id))
    IN  IF IsSome(answer)
        THEN LET should_shuffle == queue_get_shuffle(w)
                 index == append_next_index(w1)
                 w3 == queue_append_next(w1, Unwrap(answer))
             IN  queue_play(w3, index, should_shuffle, should_shuffle)
        ELSE w1
open_artist(w, id, answer) ==
    LET w1 == api_fetch(w, "artist", id)
    IN  IF IsSome(answer)
        THEN LET should_shuffle == queue_get_shuffle(w1)
                 w2 == queue_clear(w1)
                 index == append_next_index(w2)
                 w3 == queue_append_next(w2, Unwrap(answer))
             IN  queue_play(w3, index, should_shuffle, should_shuffle)
        ELSE w1

\* lines 579-649: match uri_type
OpenParsed(w, parsed, answer) ==
    IF parsed.panicked THEN Panic(w)
    ELSE CASE parsed.uri_type = Some("album") -> open_album(w, parsed.id, answer)
           [] parsed.uri_type = Some("track") -> open_track(w, parsed.id, answer)
           [] parsed.uri_type = Some("playlist") -> open_playlist(w, parsed.id, answer)
           [] parsed.uri_type = Some("show") -> open_show(w, parsed.id, answer)
           [] parsed.uri_type = Some("episode") -> open_episode(w, parsed.id, answer)
           [] parsed.uri_type = Some("artist") -> open_artist(w, parsed.id, answer)
           [] OTHER -> w
\* answer: what the catalog answers to the one fetch the handler makes
method_openuri(w, uri_data, answer) == OpenParsed(w, ParseUri(uri_data), answer)
\* the answers the catalog can give to that fetch
AnswersTo(parsed) ==
    IF parsed.panicked \/ ~IsSome(parsed.uri_type) THEN {None}
    ELSE api_answers(Unwrap(parsed.uri_type), parsed.id)

(***************************************************************************)
(* get_playbackstatus and get_metadata                                     *)
(***************************************************************************)
get_playbackstatus(w) ==
    CASE get_current_status(w) \in {"Playing", "FinishedTrack"} -> "Playing"
      [] get_current_status(w) = "Paused" -> "Paused"
      [] OTHER -> "Stopped"

\* Playable::id, uri, duration, cover_url, share_url (crate::model::playable)
playable_uri(p) ==
    IF p.type = "Track"
    THEN "spotify:track:" \o UnwrapOr(p.id, "")
    ELSE "spotify:episode:" \o UnwrapOr(p.id, "")
\* Library::is_saved_track: the saved-items store holds the track t1
SavedTracks == {Some("t1")}
is_saved_track(track) == track.id \in SavedTracks

\* str::replace(from, to), for single characters
RECURSIVE replace(_, _, _)
replace(s, from, to) ==
    IF Len(s) = 0 THEN ""
    ELSE (IF CharAt(s, 0) = from THEN to ELSE CharAt(s, 0))
            \o replace(SubSeq(s, 2, Len(s)), from, to)

\* HashMap::insert; the map of HashMap::new is the empty function <<>>
Insert(hm, key, value) ==
    [k \in DOMAIN hm \cup {key} |-> IF k = key THEN value ELSE hm[k]]

\* Option::map and Option::and_then over the playable, by the field each key reads
OfTrack(playable) == IF IsSome(playable) THEN PlayableTrack(Unwrap(playable)) ELSE None

\* lines 44-58: the full track is fetched when the track has no cover_url;
\* answer is what the catalog answers to api.track(id)
playable_full(playable, answer) ==
    IF ~IsSome(playable) THEN None
    ELSE IF Unwrap(playable).type = "Track"
         THEN IF IsSome(Unwrap(playable).cover_url) THEN playable ELSE answer
         ELSE playable

TrackIdValue(playable) ==
    "/org/ncspot/" \o
        (IF IsSome(playable) /\ IsSome(Unwrap(playable).id)
         THEN replace(playable_uri(Unwrap(playable)), ":", "/")
         ELSE "0")
LengthValue(playable) ==
    IF IsSome(playable) THEN Unwrap(playable).duration * 1000 ELSE 0
ArtUrlValue(playable) ==
    IF IsSome(playable) THEN UnwrapOr(Unwrap(playable).cover_url, "") ELSE ""
AlbumValue(track) == IF IsSome(track) THEN UnwrapOr(Unwrap(track).album, "") ELSE ""
AlbumArtistValue(track) == IF IsSome(track) THEN Unwrap(track).album_artists ELSE <<>>
ArtistValue(track) == IF IsSome(track) THEN Unwrap(track).artists ELSE <<>>
DiscNumberValue(track) == IF IsSome(track) THEN Unwrap(track).disc_number ELSE 0
TitleValue(playable) ==
    IF ~IsSome(playable) THEN ""
    ELSE IF Unwrap(playable).type = "Track"
         THEN Unwrap(playable).title
         ELSE Unwrap(playable).name
TrackNumberValue(track) == IF IsSome(track) THEN Unwrap(track).track_number ELSE 0
UrlValue(playable) ==
    IF IsSome(playable) THEN UnwrapOr(Unwrap(playable).url, "") ELSE ""
\* 1.0 when the track is saved, else 0.0
UserRatingValue(track) ==
    IF IsSome(track) /\ is_saved_track(Unwrap(track)) THEN "1.0" ELSE "0.0"

\* lines 61-163, on the playable of line 59 and its track
InsertUrl_mutant(hm, playable) ==
    IF IsSome(playable) THEN Insert(hm, "xesam:url", UrlValue(playable)) ELSE hm
InsertUrl(hm, playable) == Insert(hm, "xesam:url", UrlValue(playable))
MetadataOf(playable, track) ==
    Insert(InsertUrl(
        Insert(Insert(Insert(Insert(Insert(Insert(Insert(Insert(Insert(<<>>,
            "mpris:trackid", TrackIdValue(playable)),
            "mpris:length", LengthValue(playable)),
            "mpris:artUrl", ArtUrlValue(playable)),
            "xesam:album", AlbumValue(track)),
            "xesam:albumArtist", AlbumArtistValue(track)),
            "xesam:artist", ArtistValue(track)),
            "xesam:discNumber", DiscNumberValue(track)),
            "xesam:title", TitleValue(playable)),
            "xesam:trackNumber", TrackNumberValue(track)),
        playable),
        "xesam:userRating", UserRatingValue(track))
get_metadata(playable, answer) ==
    MetadataOf(playable_full(playable, answer), OfTrack(playable_full(playable, answer)))
\* the answers of api.track to the fetch of get_metadata, when it makes one
MetadataAnswers(playable) ==
    IF IsSome(playable) /\ Unwrap(playable).type = "Track"
            /\ ~IsSome(Unwrap(playable).cover_url)
    THEN api_answers("track", UnwrapOr(Unwrap(playable).id, ""))
    ELSE {None}

property_playbackstatus_get(w) == Reply(w, get_playbackstatus(w))
property_metadata_get(w, answer) == Reply(w, get_metadata(queue_get_current(w), answer))
\* progress.as_micros() as i64
property_position_get(w) == Reply(w, get_current_progress(w) * 1000)

(***************************************************************************)
(* PlayPause, Play, Pause, Stop, Next                                      *)
(***************************************************************************)
spotify_play(w) ==
    [Did(w, <<"play">>) EXCEPT !.status = IF @ = "Paused" THEN "Playing" ELSE @]
spotify_pause(w) ==
    [Did(w, <<"pause">>) EXCEPT !.status = IF @ = "Playing" THEN "Paused" ELSE @]
spotify_stop(w) == [Did(w, <<"stop">>) EXCEPT !.status = "Stopped", !.progress = 0]
method_play(w) == spotify_play(w)
method_pause(w) == spotify_pause(w)
method_stop(w) == spotify_stop(w)
method_next(w) == queue_next(w, TRUE)

(***************************************************************************)
(* Properties: Volume, LoopStatus, Shuffle                                 *)
(***************************************************************************)
\* an f64 is written as the ratio num / den; 0 / 0 is NaN
F64(num, den) == [num |-> num, den |-> den]
RECURSIVE Gcd(_, _)
Gcd(a, b) == IF b = 0 THEN a ELSE Gcd(b, a % b)
\* a as f64 / b as f64, in lowest terms
F64Div(a, b) == F64(a \div Gcd(a, b), b \div Gcd(a, b))
\* (0.0..=1.0).contains(&req): false for NaN
InUnitRange_mutant(req) == req.den > 0
InUnitRange(req) == req.den > 0 /\ 0 <= req.num /\ req.num <= req.den
\* u16::MAX as f64 / 100.0, as u16 (crate::spotify)
VOLUME_PERCENT == 655
U16Max == 65535
\* `x as u16` of an f64: truncates, and saturates at the ends of the range
AsU16(x) == IF x < 0 THEN 0 ELSE IF x > U16Max THEN U16Max ELSE x
\* (VOLUME_PERCENT as f64 * req * 100.0) as u16
ScaledVolume(req) == AsU16((VOLUME_PERCENT * 100 * req.num) \div req.den)

property_volume_get(w) == Reply(w, F64Div(spotify_volume(w), U16Max))
VolumeApply(w, req) ==
    IF InUnitRange(req) THEN spotify_set_volume(w, ScaledVolume(req)) ELSE w
property_volume_set(w, arg) ==
    event_trigger(VolumeApply(w, UnwrapOr(arg, F64Div(spotify_volume(w), U16Max))))

LoopStatusToken_mutant(setting) ==
    CASE setting = "RepeatTrack" -> "Playlist"
      [] setting = "RepeatPlaylist" -> "Track"
      [] OTHER -> "None"
LoopStatusToken(setting) ==
    CASE setting = "None" -> "None"
      [] setting = "RepeatTrack" -> "Track"
      [] setting = "RepeatPlaylist" -> "Playlist"
property_loopstatus_get(w) == Reply(w, LoopStatusToken(queue_get_repeat(w)))
RepeatOfToken(token) ==
    CASE token = "Track" -> "RepeatTrack"
      [] token = "Playlist" -> "RepeatPlaylist"
      [] OTHER -> "None"
property_loopstatus_set(w, arg) == queue_set_repeat(w, RepeatOfToken(UnwrapOr(arg, "")))

property_shuffle_get(w) == Reply(w, queue_get_shuffle(w))
property_shuffle_set(w, arg) ==
    event_trigger(IF IsSome(arg) THEN queue_set_shuffle(w, Unwrap(arg)) ELSE w)

(***************************************************************************)
(* The inbound requests the model draws.                                   *)
(***************************************************************************)
\* how many times 2^32 an i64 argument may exceed the i32 range by
MaxWrap == 1
\* notifications pending in the channel at once
MaxChan == 3
\* notifications update() pushes in one run
MaxPush == 3
\* i64 millisecond counts: k * 2^32 + v
WideSamples ==
    {Wide(k, v) : k \in -MaxWrap..MaxWrap, v \in {MinI32, -3000, 0, 2000, 6000, MaxI32}}
\* an i64 of microseconds fits when |ms| <= 9223372036854775
MicrosArgs ==
    {None} \cup {Some(Micros(ms, 0)) : ms \in WideSamples}
           \cup {Some(Micros(W(0), 500)), Some(Micros(W(0), -500))}

\* positions the engine reports while it plays
ProgressSamples == {0, 4999, 5000, 5001}

Idle ==
    [method |-> "none", arg |-> None, pre |-> None, calls |-> <<>>,
     reply |-> None, returned |-> TRUE]

Init ==
    /\ \E q \in {<<<<>>, None>>, <<<<T1, T2, T3>>, Some(1)>>, <<<<T3, E1>>, Some(0)>>} :
          /\ items = q[1]
          /\ current = q[2]
          /\ status = IF IsSome(q[2]) THEN "Playing" ELSE "Stopped"
    /\ shuffle \in BOOLEAN
    /\ repeat = "None"
    /\ progress = 0
    /\ volume = 65535
    /\ worker = "running"
    /\ profile \in {"debug", "release"}
    /\ pc = "incoming"
    /\ last = Idle
    /\ chan = <<>>
    /\ emitted = None
    /\ ui = "running"
    /\ pushed = 0
    /\ signals = 0
    /\ waits = <<>>
    /\ active = {}

(***************************************************************************)
(* run_dbus_server's loop.  Each iteration first waits up to 200 ms for    *)
(* one inbound message, which the tree dispatches to its handler, then     *)
(* polls the notification channel.                                         *)
(***************************************************************************)
\* one inbound request, dispatched to its handler, which leaves world w
Handle(method, arg, w) ==
    /\ worker = "running" /\ pc = "incoming"
    /\ items' = w.items
    /\ current' = w.current
    /\ shuffle' = w.shuffle
    /\ repeat' = w.repeat
    /\ status' = w.status
    /\ progress' = w.progress
    /\ volume' = w.volume
    /\ worker' = IF w.panicked THEN "panicked" ELSE "running"
    /\ pc' = "poll"
    /\ last' = [method |-> method, arg |-> arg, pre |-> World,
                calls |-> w.calls, reply |-> w.reply, returned |-> ~w.panicked]
    /\ UNCHANGED <<profile, chan, emitted, ui, pushed, signals, waits, active>>

Previous == Handle("Previous", None, method_previous(World))
Seek == \E arg \in MicrosArgs : Handle("Seek", arg, method_seek(World, arg))
SetPosition == \E arg \in MicrosArgs : Handle("SetPosition", arg, method_set_position(World, arg))

\* no inbound message within the 200 ms
IncomingTimeout ==
    /\ worker = "running" /\ pc = "incoming"
    /\ pc' = "poll"
    /\ last' = Idle
    /\ UNCHANGED <<items, current, shuffle, repeat, status, progress, volume, worker, profile,
                   chan, emitted, ui, pushed, signals, waits, active>>

\* lines 702-727: at most one pending notification is taken and sent as one
\* PropertiesChanged signal; conn.send(..).unwrap() panics when the send fails
PropertiesChanged_mutant(state, answer) ==
    [interface_name |-> "org.mpris.MediaPlayer2.Player",
     changed_properties |-> [Metadata |-> get_metadata(state.track, answer)]]
PropertiesChanged(state, answer) ==
    [interface_name |-> "org.mpris.MediaPlayer2.Player",
     changed_properties |->
        [Metadata |-> get_metadata(state.track, answer), PlaybackStatus |-> state.status]]
\* rx.try_recv() on the channel c: Err on the empty channel, else Ok with the
\* oldest notification, which leaves the channel
try_recv_peek_mutant(c) ==
    IF c = <<>> THEN [state |-> None, rest |-> c]
    ELSE [state |-> Some(Head(c)), rest |-> c]
try_recv_latest_mutant(c) ==
    IF c = <<>> THEN [state |-> None, rest |-> c]
    ELSE [state |-> Some(c[Len(c)]), rest |-> <<>>]
try_recv(c) ==
    IF c = <<>> THEN [state |-> None, rest |-> c]
    ELSE [state |-> Some(Head(c)), rest |-> Tail(c)]
Poll ==
    /\ worker = "running" /\ pc = "poll"
    /\ pc' = "incoming"
    /\ last' = Idle
    /\ chan' = try_recv(chan).rest
    /\ waits' = [i \in 1..Len(try_recv(chan).rest) |->
                    waits[Len(waits) - Len(try_recv(chan).rest) + i] + 1]
    /\ IF ~IsSome(try_recv(chan).state)
       THEN /\ emitted' = None
            /\ UNCHANGED <<worker, signals>>
       ELSE \E answer \in MetadataAnswers(Unwrap(try_recv(chan).state).track),
               sent \in BOOLEAN :
              /\ emitted' = IF sent
                            THEN Some(PropertiesChanged(Unwrap(try_recv(chan).state), answer))
                            ELSE None
              /\ signals' = IF sent THEN signals + 1 ELSE signals
              /\ worker' = IF sent THEN "running" ELSE "panicked"
    /\ UNCHANGED <<items, current, shuffle, repeat, status, progress, volume, profile, ui,
                   pushed, active>>

\* MprisManager::update, on the caller's thread: tx.send(..).unwrap() panics once
\* the worker is gone and its receiver dropped
MprisState(status_, track) == [status |-> status_, track |-> track]
Update ==
    /\ ui = "running"
    /\ Len(chan) < MaxChan /\ pushed < MaxPush
    /\ IF worker = "running"
       THEN /\ chan' = Append(chan, MprisState(get_playbackstatus(World), queue_get_current(World)))
            /\ pushed' = pushed + 1
            /\ waits' = Append(waits, 0)
            /\ UNCHANGED ui
       ELSE /\ ui' = "panicked"
            /\ UNCHANGED <<chan, pushed, waits>>
    /\ UNCHANGED <<items, current, shuffle, repeat, status, progress, volume, worker, profile,
                   pc, last, emitted, signals, active>>

\* the engine plays on, in its own thread: the position of the current item moves
EnginePlays ==
    /\ pc = "incoming"
    /\ IsSome(current) /\ status = "Playing"
    /\ \E p \in ProgressSamples :
          /\ p < Unwrap(queue_get_current(World)).duration
          /\ progress' = p
    /\ UNCHANGED <<items, current, shuffle, repeat, status, volume, worker, profile, pc, last,
                   chan, emitted, ui, pushed, signals, waits, active>>

\* the strings OpenUri is called with; None is a call without a string argument
UriSamples ==
    {"spotify:album:a1", "spotify:track:t1", "spotify:playlist:p1",
     "spotify:playlist:p0", "spotify:show:s1", "spotify:episode:e1",
     "spotify:artist:r1", "spotify:playlist:gone",
     "https://open.spotify.com/playlist/p1",
     "http://open.spotify.com/user/u1/playlist/p1",
     "https://open.spotify.com/playlist/p1?si=abc",
     "https://open.spotify.com/show/s1",
     "https://open.spotify.com/artist/r1",
     "https://open.spotify.com/",
     "", "p1", "spotify:radio:x", "spotify:track", "nonsense:track:t1"}
OpenUri ==
    \E uri_data \in {None} \cup {Some(u) : u \in UriSamples} :
      \E answer \in AnswersTo(ParseUri(uri_data)) :
        Handle("OpenUri", [uri |-> uri_data, answer |-> answer],
               method_openuri(World, uri_data, answer))

(***************************************************************************)
(* The same loop with a handler's run taken apart: conn.incoming(200)      *)
(* starts the handler of the message that arrived, the handler makes its   *)
(* calls on the queue, the player and the catalog one after the other,     *)
(* and it returns to the loop, which then polls.                           *)
(***************************************************************************)
\* add_handler(tree) leaves the tree's handlers to conn.incoming(200).next():
\* a handler starts only where the loop's thread waits for a message
CanDispatch_mutant(at) == TRUE
CanDispatch(at) == at = "incoming"
Dispatch(method, arg, w) ==
    /\ worker = "running" /\ CanDispatch(pc)
    /\ pc' = "handling"
    /\ active' = active \cup {[slot |-> Cardinality(active) + 1, method |-> method,
                               arg |-> arg, pre |-> World, post |-> w, done |-> 0]}
    /\ UNCHANGED <<items, current, shuffle, repeat, status, progress, volume, worker, profile,
                   last, chan, emitted, ui, pushed, signals, waits>>
\* the collaborator a logged call was made on, applied to the state as it is now
ApplyCall(w, call) ==
    CASE call[1] = "seek" -> spotify_seek(w, call[2])
      [] call[1] = "set_volume" -> spotify_set_volume(w, call[2])
      [] call[1] = "play" /\ Len(call) = 1 -> spotify_play(w)
      [] call[1] = "pause" -> spotify_pause(w)
      [] call[1] = "stop" -> spotify_stop(w)
      [] call[1] = "trigger" -> event_trigger(w)
      [] call[1] = "set_repeat" -> queue_set_repeat(w, call[2])
      [] call[1] = "set_shuffle" -> queue_set_shuffle(w, call[2])
      [] call[1] = "play" /\ Len(call) = 4 -> queue_play(w, call[2], call[3], call[4])
      [] call[1] = "previous" -> queue_previous(w)
      [] call[1] = "next" -> queue_next(w, call[2])
      [] call[1] = "clear" -> queue_clear(w)
      [] call[1] = "append" -> queue_append(w, call[2])
      [] call[1] = "append_next" -> queue_append_next(w, call[2])
      [] call[1] = "api" -> api_fetch(w, call[2], call[3])
\* a started handler makes its next call
HandlerStep ==
    /\ worker = "running"
    /\ \E a \in active :
          /\ a.done < Len(a.post.calls)
          /\ active' = (active \ {a}) \cup {[a EXCEPT !.done = @ + 1]}
          /\ items' = ApplyCall(World, a.post.calls[a.done + 1]).items
          /\ current' = ApplyCall(World, a.post.calls[a.done + 1]).current
          /\ shuffle' = ApplyCall(World, a.post.calls[a.done + 1]).shuffle
          /\ repeat' = ApplyCall(World, a.post.calls[a.done + 1]).repeat
          /\ status' = ApplyCall(World, a.post.calls[a.done + 1]).status
          /\ progress' = ApplyCall(World, a.post.calls[a.done + 1]).progress
          /\ volume' = ApplyCall(World, a.post.calls[a.done + 1]).volume
    /\ UNCHANGED <<worker, profile, pc, last, chan, emitted, ui, pushed, signals, waits>>
\* a handler that has made its calls returns to the loop, or panics there
HandlerReturn ==
    /\ worker = "running"
    /\ \E a \in active :
          /\ a.done = Len(a.post.calls)
          /\ active' = active \ {a}
          /\ worker' = IF a.post.panicked THEN "panicked" ELSE "running"
          /\ last' = [method |-> a.method, arg |-> a.arg, pre |-> a.pre,
                      calls |-> a.post.calls, reply |-> a.post.reply,
                      returned |-> ~a.post.panicked]
    /\ pc' = "poll"
    /\ UNCHANGED <<items, current, shuffle, repeat, status, progress, volume, profile,
                   chan, emitted, ui, pushed, signals, waits>>

\* the f64 values a Volume set carries: -0.5, 0, 0.25, 0.5, 1, 1.5, NaN
\* a set without a number is drawn at the two volumes where the f64 quotient
\* volume / 65535 is exact
VolumeArgs(v) ==
    {Some(F64(-1, 2)), Some(F64(0, 1)), Some(F64(1, 4)), Some(F64(1, 2)),
     Some(F64(1, 1)), Some(F64(3, 2)), Some(F64(0, 0))}
        \cup (IF v \in {0, U16Max} THEN {None} ELSE {})
VolumeSet ==
    \E arg \in VolumeArgs(volume) :
        Handle("Volume.set", arg, property_volume_set(World, arg))
VolumeGet == Handle("Volume.get", None, property_volume_get(World))
\* the strings a LoopStatus set carries; None is a set without a string
LoopStatusSet ==
    \E arg \in {None} \cup {Some(t) : t \in {"None", "Track", "Playlist", "Album", "track", ""}} :
        Handle("LoopStatus.set", arg, property_loopstatus_set(World, arg))
LoopStatusGet == Handle("LoopStatus.get", None, property_loopstatus_get(World))
ShuffleSet ==
    \E arg \in {None, Some(TRUE), Some(FALSE)} :
        Handle("Shuffle.set", arg, property_shuffle_set(World, arg))
ShuffleGet == Handle("Shuffle.get", None, property_shuffle_get(World))

MetadataGet ==
    \E answer \in MetadataAnswers(queue_get_current(World)) :
        Handle("Metadata.get", answer, property_metadata_get(World, answer))
PlaybackStatusGet == Handle("PlaybackStatus.get", None, property_playbackstatus_get(World))
PositionGet == Handle("Position.get", None, property_position_get(World))
Play == Handle("Play", None, method_play(World))
Pause == Handle("Pause", None, method_pause(World))
Stop == Handle("Stop", None, method_stop(World))
NextItem == Handle("Next", None, method_next(World))

NextTransport ==
    \/ Previous
    \/ Seek
    \/ SetPosition
    \/ IncomingTimeout
    \/ Poll
    \/ EnginePlays

SpecTransport == Init /\ [][NextTransport]_vars

NextOpenUri ==
    \/ OpenUri
    \/ IncomingTimeout
    \/ Poll
    \/ EnginePlays

SpecOpenUri == Init /\ [][NextOpenUri]_vars

NextProps ==
    \/ VolumeSet
    \/ VolumeGet
    \/ LoopStatusSet
    \/ LoopStatusGet
    \/ ShuffleSet
    \/ ShuffleGet
    \/ IncomingTimeout
    \/ Poll

SpecProps == Init /\ [][NextProps]_vars

NextMetadata ==
    \/ MetadataGet
    \/ PlaybackStatusGet
    \/ PositionGet
    \/ Play
    \/ Pause
    \/ Stop
    \/ NextItem
    \/ Previous
    \/ IncomingTimeout
    \/ Poll
    \/ EnginePlays

SpecMetadata == Init /\ [][NextMetadata]_vars

NextBridge ==
    \/ Update
    \/ Poll
    \/ IncomingTimeout
    \/ Play
    \/ Pause
    \/ Stop
    \/ NextItem
    \/ Previous

SpecBridge == Init /\ [][NextBridge]_vars
\* the loop keeps turning: conn.incoming(200) gives up after 200 ms when no
\* message arrives, and the poll that follows does not block; the build profile
\* and the shuffle flag, which no step of the bridge reads, are held at one value
InitBridgeLive == Init /\ profile = "release" /\ ~shuffle
SpecBridgeLive ==
    InitBridgeLive /\ [][NextBridge]_vars /\ WF_vars(IncomingTimeout) /\ WF_vars(Poll)

NextSerial ==
    \/ \E uri_data \in {None} \cup {Some(u) : u \in UriSamples} :
         \E answer \in AnswersTo(ParseUri(uri_data)) :
           Dispatch("OpenUri", [uri |-> uri_data, answer |-> answer],
                    method_openuri(World, uri_data, answer))
    \/ Dispatch("Next", None, method_next(World))
    \/ Dispatch("Previous", None, method_previous(World))
    \/ HandlerStep
    \/ HandlerReturn
    \/ IncomingTimeout
    \/ Poll

SpecSerial == Init /\ [][NextSerial]_vars

(***************************************************************************)
(* Transport claims                                                        *)
(***************************************************************************)
\* the item the request handled in this iteration found current
PreItem == Unwrap(queue_get_current(last.pre))
PreHasItem == IsSome(last.pre.current)
\* the i64 microseconds a Seek or SetPosition request carried (0 when it had none)
LastMicros == UnwrapOr(last.arg, Micros(W(0), 0))

\* C1: Previous with an elapsed position under 5000 ms calls the queue's
\* previous-item operation and does not seek; at 5000 ms or more it seeks the
\* current item to 0 and leaves the queue's current index unchanged.
C1_PreviousThreshold ==
    last.method = "Previous" =>
        IF last.pre.progress < 5000
        THEN last.calls = <<<<"previous">>>>
        ELSE /\ last.calls = <<<<"seek", 0>>>>
             /\ progress = 0
             /\ current = last.pre.current
C1_Witness ==
    /\ last.method = "Previous"
    /\ last.pre.progress = 5000
    /\ last.calls = <<<<"seek", 0>>>>

\* C2: Seek with a current item: when position_ms + offset_ms reaches the item's
\* duration the handler advances to the next item (forced) and does not seek; when
\* the sum is negative it seeks to 0; otherwise it seeks to exactly the sum.  The
\* sum is the exact one, for every int64 offset.
C2_SeekOutcome ==
    (last.method = "Seek" /\ PreHasItem) =>
        LET exact == WPlus(DivThousand(LastMicros), last.pre.progress)
        IN  IF ~WLess(exact, W(PreItem.duration))
            THEN last.calls = <<<<"next", TRUE>>>>
            ELSE IF WNeg(exact)
                 THEN last.calls = <<<<"seek", 0>>>>
                 ELSE last.calls = <<<<"seek", exact.v>>>>

\* C3: SetPosition with a target whose millisecond value is at least the current
\* item's duration issues no seek and changes neither the engine position nor the
\* queue's current index, for every int64 target.
C3_SetPositionPastEnd ==
    (/\ last.method = "SetPosition"
     /\ PreHasItem
     /\ ~WLess(DivThousand(LastMicros), W(PreItem.duration))) =>
        /\ last.calls = <<>>
        /\ progress = last.pre.progress
        /\ current = last.pre.current

(***************************************************************************)
(* OpenUri claims                                                          *)
(***************************************************************************)
LastUri == last.arg.uri
LastAnswer == last.arg.answer
LastCall == last.calls[Len(last.calls)]
\* the catalog answered the handler's fetch with a record that has a list
AnsweredWithList == IsSome(LastAnswer) /\ IsSome(Unwrap(LastAnswer).tracks)
AnsweredList == Unwrap(Unwrap(LastAnswer).tracks)
\* the kind the handler fetched from the catalog
FetchedKind == last.calls[1][2]

\* links and URIs of the playlist p1, well-formed by the pattern of section 4.2
PlaylistLinks ==
    {"https://open.spotify.com/playlist/p1",
     "http://open.spotify.com/user/u1/playlist/p1",
     "https://open.spotify.com/playlist/p1?si=abc",
     "spotify:playlist:p1"}
ShowLinks == {"https://open.spotify.com/show/s1", "spotify:show:s1"}

\* C4: OpenUri with a well-formed playlist link whose fetch succeeds leaves the
\* queue holding exactly that playlist's tracks in catalog order, nothing of the
\* prior queue, and has started playback at the index of the first inserted item.
C4_OpenPlaylist ==
    (/\ last.method = "OpenUri"
     /\ LastUri \in {Some(u) : u \in PlaylistLinks}
     /\ AnsweredWithList) =>
        /\ last.returned
        /\ last.calls = <<<<"api", "playlist", "p1">>, <<"clear">>,
                         <<"append_next", AnsweredList>>,
                         <<"play", 0, last.pre.shuffle, last.pre.shuffle>>>>
        /\ items = AnsweredList
        /\ current = Some(0)
        /\ status = "Playing"
        /\ items[1] = AnsweredList[1]
C4_Witness ==
    /\ last.method = "OpenUri"
    /\ LastUri = Some("https://open.spotify.com/playlist/p1")
    /\ AnsweredWithList
    /\ last.pre.items = <<T3, E1>>
    /\ items = <<T1, T2, T3>>
    /\ current = Some(0)

\* strings that name no known content kind
Unresolvable ==
    {"", "p1", "spotify:radio:x", "spotify:track", "nonsense:track:t1",
     "https://open.spotify.com/"}
\* C5: OpenUri with a string that does not resolve to a known content kind is a
\* silent no-op: the handler returns, and queue contents, current index, shuffle
\* flag and playback state are as before the call.
C5_UnresolvedIsNoOp ==
    (last.method = "OpenUri" /\ LastUri \in {Some(u) : u \in Unresolvable}) =>
        /\ last.returned
        /\ last.calls = <<>>
        /\ items = last.pre.items
        /\ current = last.pre.current
        /\ shuffle = last.pre.shuffle
        /\ status = last.pre.status
        /\ progress = last.pre.progress

\* C6: OpenUri for a show enqueues the episodes in the reverse of the catalog
\* order ([E1, E2, E3] as [E3, E2, E1]), clears the prior queue, and starts
\* playback at the first inserted index.
C6_OpenShowReversed ==
    (/\ last.method = "OpenUri"
     /\ LastUri \in {Some(u) : u \in ShowLinks}
     /\ AnsweredWithList) =>
        /\ Len(items) = Len(AnsweredList)
        /\ \A i \in 1..Len(items) : items[i] = AnsweredList[Len(AnsweredList) + 1 - i]
        /\ AnsweredList = <<E1, E2, E3>> => items = <<E3, E2, E1>>
        /\ LastCall = <<"play", 0, last.pre.shuffle, last.pre.shuffle>>
        /\ current = Some(0)
        /\ status = "Playing"
C6_Witness ==
    /\ last.method = "OpenUri"
    /\ LastUri = Some("https://open.spotify.com/show/s1")
    /\ last.pre.items = <<T1, T2, T3>>
    /\ items = <<E3, E2, E1>>
    /\ current = Some(0)

\* the fetch yielded no content: no record, or a record with no track/episode list
NoContent ==
    \/ ~IsSome(LastAnswer)
    \/ FetchedKind \in {"album", "playlist", "show"} /\ ~IsSome(Unwrap(LastAnswer).tracks)
\* C7: OpenUri, for every content kind: when the catalog fetch yields no content,
\* the queue is not cleared: the fetch is the only call made, and the queue, its
\* current item and the playback state are as before.
C7_NoContentNoClear ==
    (last.method = "OpenUri" /\ last.calls # <<>> /\ NoContent) =>
        /\ Len(last.calls) = 1
        /\ \A i \in 1..Len(last.calls) : last.calls[i][1] # "clear"
        /\ items = last.pre.items
        /\ current = last.pre.current
        /\ status = last.pre.status
        /\ progress = last.pre.progress
C7_Witness ==
    /\ last.method = "OpenUri"
    /\ last.calls = <<<<"api", "artist", "r1">>>>
    /\ ~IsSome(LastAnswer)
    /\ items = <<T1, T2, T3>>
    /\ current = Some(1)

(***************************************************************************)
(* Property claims                                                         *)
(***************************************************************************)
\* the "trigger" calls among the calls of the request
Triggers == {i \in 1..Len(last.calls) : last.calls[i] = <<"trigger">>}
\* the f64 of a Volume set lies in [0.0, 1.0]
RequestedInRange ==
    /\ IsSome(last.arg)
    /\ Unwrap(last.arg).den > 0
    /\ 0 <= Unwrap(last.arg).num
    /\ Unwrap(last.arg).num <= Unwrap(last.arg).den

\* C8: a Volume set with a value outside [0.0, 1.0] leaves the engine's stored
\* volume unchanged, and every Volume set, in range or not, triggers exactly one
\* UI refresh.
C8_VolumeSet ==
    last.method = "Volume.set" =>
        /\ Cardinality(Triggers) = 1
        /\ (IsSome(last.arg) /\ ~RequestedInRange) =>
              /\ volume = last.pre.volume
              /\ \A i \in 1..Len(last.calls) : last.calls[i][1] # "set_volume"
C8_Witness ==
    /\ last.method = "Volume.set"
    /\ last.arg = Some(F64(3, 2))
    /\ last.pre.volume = 32750
    /\ volume = 32750
    /\ last.calls = <<<<"trigger">>>>

\* C9: after LoopStatus is set to T in {None, Track, Playlist}, a read that
\* follows with no queue change in between returns T; after any other token, or
\* a set without a string, it returns None.
C9_LoopStatusRoundTrip ==
    last.method = "LoopStatus.set" =>
        property_loopstatus_get(World).reply =
            Some(IF last.arg \in {Some("None"), Some("Track"), Some("Playlist")}
                 THEN Unwrap(last.arg)
                 ELSE "None")
C9_Witness ==
    /\ last.method = "LoopStatus.set"
    /\ last.arg = Some("Track")
    /\ last.pre.repeat = "RepeatPlaylist"
    /\ property_loopstatus_get(World).reply = Some("Track")

(***************************************************************************)
(* Metadata claims                                                         *)
(***************************************************************************)
MetadataKeys ==
    {"mpris:trackid", "mpris:length", "mpris:artUrl", "xesam:album",
     "xesam:albumArtist", "xesam:artist", "xesam:discNumber", "xesam:title",
     "xesam:trackNumber", "xesam:url", "xesam:userRating"}
LastMetadata == Unwrap(last.reply)

\* C10: metadata() returns all eleven documented keys for every input (no
\* current item, a Track with or without id, cover or album, an Episode); with no
\* current item the values are the documented defaults: length 0, empty strings,
\* empty lists, disc and track number 0, rating 0.0.
C10_MetadataKeys ==
    last.method = "Metadata.get" =>
        /\ DOMAIN LastMetadata = MetadataKeys
        /\ ~IsSome(last.pre.current) =>
              /\ LastMetadata["mpris:length"] = 0
              /\ LastMetadata["mpris:artUrl"] = ""
              /\ LastMetadata["xesam:album"] = ""
              /\ LastMetadata["xesam:albumArtist"] = <<>>
              /\ LastMetadata["xesam:artist"] = <<>>
              /\ LastMetadata["xesam:discNumber"] = 0
              /\ LastMetadata["xesam:title"] = ""
              /\ LastMetadata["xesam:trackNumber"] = 0
              /\ LastMetadata["xesam:url"] = ""
              /\ LastMetadata["xesam:userRating"] = "0.0"
C10_Witness ==
    /\ last.method = "Metadata.get"
    /\ ~IsSome(last.pre.current)
    /\ Cardinality(DOMAIN LastMetadata) = 11
    /\ LastMetadata["mpris:trackid"] = "/org/ncspot/0"

\* the kind segment of a playable's URI, spotify:<kind>:<id>
UriKindOf(p) == IF p.type = "Track" THEN "track" ELSE "episode"
\* C11: the track identifier of the metadata of a playable with an id is the
\* prefix /org/ncspot/ followed by the playable's URI with every colon replaced
\* by a slash (spotify:track:t1 gives /org/ncspot/spotify/track/t1); with no
\* current item, or a playable without an id, it is /org/ncspot/0.
C11_TrackIdMapping ==
    last.method = "Metadata.get" =>
        LastMetadata["mpris:trackid"] =
            IF PreHasItem /\ IsSome(PreItem.id)
            THEN "/org/ncspot/spotify/" \o UriKindOf(PreItem) \o "/" \o Unwrap(PreItem.id)
            ELSE "/org/ncspot/0"

(***************************************************************************)
(* Bridge loop claims                                                      *)
(***************************************************************************)
\* the step takes a notification from the channel
Takes == Len(chan') < Len(chan)
\* C12: each notification taken from the channel produces exactly one outbound
\* change event, and that event carries both Metadata and PlaybackStatus of the
\* player interface, mapped from the notification taken: a step takes at most one
\* notification, a step that takes one and leaves the loop running sends one
\* signal with exactly these two properties, and no other step sends a signal.
C12_SingleCombinedEvent ==
    [][/\ Len(chan') >= Len(chan) - 1
       /\ (Takes /\ worker' = "running") =>
            /\ signals' = signals + 1
            /\ IsSome(emitted')
            /\ Unwrap(emitted').interface_name = "org.mpris.MediaPlayer2.Player"
            /\ DOMAIN Unwrap(emitted').changed_properties = {"Metadata", "PlaybackStatus"}
            /\ Unwrap(emitted').changed_properties.PlaybackStatus = Head(chan).status
            /\ \E answer \in MetadataAnswers(Head(chan).track) :
                  Unwrap(emitted').changed_properties.Metadata
                      = get_metadata(Head(chan).track, answer)
       /\ ~Takes => signals' = signals
      ]_vars
C12_Witness ==
    /\ worker = "running"
    /\ signals = 2
    /\ IsSome(emitted)
    /\ DOMAIN Unwrap(emitted).changed_properties = {"Metadata", "PlaybackStatus"}
    /\ Unwrap(emitted).changed_properties.PlaybackStatus = "Paused"
    /\ Unwrap(emitted).changed_properties.Metadata["xesam:title"] = "Two"

\* C13: no inbound OpenUri request terminates the loop: for every argument (none,
\* the empty string, a string with the catalog domain that does not match the
\* link pattern, any other string) the handler returns and the worker goes on to
\* its poll and to later requests.
C13_OpenUriNeverStopsLoop ==
    last.method = "OpenUri" => (last.returned /\ worker = "running" /\ pc = "poll")

\* C14: every notification pushed by update() is consumed exactly once: the
\* channel only grows at its end and shrinks at its head, one notification a
\* step; while the loop runs, the notifications pushed are those sent as events
\* plus those still pending (none dropped, none sent twice); and each pushed
\* notification is eventually sent as an event, unless the loop stops.
C14_ConsumedExactlyOnce ==
    /\ [](worker = "running" => pushed = signals + Len(chan))
    /\ [][/\ Takes => (chan' = Tail(chan) /\ pushed' = pushed)
          /\ Len(chan') > Len(chan) =>
                (SubSeq(chan', 1, Len(chan)) = chan /\ Len(chan') = Len(chan) + 1
                    /\ pushed' = pushed + 1 /\ signals' = signals)
          /\ Len(chan') = Len(chan) => (chan' = chan /\ pushed' = pushed)]_vars
    /\ \A n \in 1..MaxPush : (pushed >= n) ~> (signals >= n \/ worker # "running")
C14_Witness ==
    /\ worker = "running"
    /\ pushed = 2
    /\ signals = 2
    /\ chan = <<>>
    /\ IsSome(emitted)

\* a poll of the loop that finds several notifications pending and does not stop
PollOfSeveral == pc = "poll" /\ pc' = "incoming" /\ Len(chan) >= 2 /\ worker' = "running"
\* the event of the step is the one mapped from notification n
EmitsFor(n) ==
    /\ IsSome(emitted')
    /\ Unwrap(emitted').changed_properties.PlaybackStatus = n.status
    /\ \E answer \in MetadataAnswers(n.track) :
          Unwrap(emitted').changed_properties.Metadata = get_metadata(n.track, answer)
LastMicrosNegative ==
    WNeg(LastMicros.ms) \/ (LastMicros.ms = W(0) /\ LastMicros.us < 0)
\* C16: SetPosition with a negative target, for every negative int64, with a
\* current item of positive duration: the target is clamped up to 0 and the
\* handler seeks to position 0.
C16_NegativeTargetSeeksZero ==
    (last.method = "SetPosition" /\ PreHasItem /\ LastMicrosNegative) =>
        /\ last.calls = <<<<"seek", 0>>>>
        /\ progress = 0

\* the exact progress_ms + offset_micros / 1000 of a Seek request, clamped at 0
ExactNewPosition ==
    IF WNeg(WPlus(DivThousand(LastMicros), last.pre.progress))
    THEN W(0)
    ELSE WPlus(DivThousand(LastMicros), last.pre.progress)
\* the i32 sum of lines 525-527 for the Seek request, None when it panics
LastSeekSum ==
    SeekSum(AsI32(W(as_secs(last.pre.progress) * 1000)),
            subsec_millis(last.pre.progress),
            AsI32(DivThousand(LastMicros)),
            last.pre.overflow_checks)
\* C17: for every int64 offset and every progress, the new position the Seek
\* handler computes is max(0, progress_ms + offset_micros / 1000) exactly: the
\* conversion of the offset to 32 bits keeps its value, the 32-bit sum neither
\* overflows (the handler returns) nor wraps, and a seek goes to that position.
C17_SeekArithmeticExact ==
    (last.method = "Seek" /\ PreHasItem) =>
        /\ W(AsI32(DivThousand(LastMicros))) = DivThousand(LastMicros)
        /\ last.returned
        /\ IsSome(LastSeekSum)
        /\ W(Max(Unwrap(LastSeekSum), 0)) = ExactNewPosition
        /\ (last.calls # <<>> /\ last.calls[1][1] = "seek") =>
              W(last.calls[1][2]) = ExactNewPosition

(***************************************************************************)
(* OpenUri claims, continued                                               *)
(***************************************************************************)
\* the play calls among the calls of the request
PlayCalls == {i \in 1..Len(last.calls) : last.calls[i][1] = "play"}
\* C18: in OpenUri, for every content kind whose fetch succeeds (album, track,
\* playlist, show, episode, artist), the shuffle flag the queue had before it
\* was cleared is passed unchanged as both shuffle arguments of the play call.
C18_ShufflePassedToPlay ==
    last.method = "OpenUri" =>
        \A i \in PlayCalls :
            /\ last.calls[i][3] = last.pre.shuffle
            /\ last.calls[i][4] = last.pre.shuffle

(***************************************************************************)
(* Metadata claims, continued                                              *)
(***************************************************************************)
\* the item read is a Track without cover art and the catalog's re-fetch of it
\* answered nothing
RefetchAnsweredNothing ==
    /\ last.method = "Metadata.get"
    /\ PreHasItem
    /\ PreItem.type = "Track"
    /\ ~IsSome(PreItem.cover_url)
    /\ ~IsSome(last.arg)
\* C19: when the input of metadata() is a Track without cover art and the catalog
\* re-fetch returns nothing, the metadata is built from the original cover-less
\* track: its title, artists, album, length and track identifier, with an empty
\* cover-art URL, not the no-item defaults.
C19_CoverlessTrackKept ==
    RefetchAnsweredNothing =>
        /\ LastMetadata["xesam:title"] = PreItem.title
        /\ LastMetadata["xesam:artist"] = PreItem.artists
        /\ LastMetadata["xesam:album"] = UnwrapOr(PreItem.album, "")
        /\ LastMetadata["mpris:length"] = PreItem.duration * 1000
        /\ LastMetadata["mpris:trackid"] =
              (IF IsSome(PreItem.id)
               THEN "/org/ncspot/spotify/track/" \o Unwrap(PreItem.id)
               ELSE "/org/ncspot/0")
        /\ LastMetadata["mpris:artUrl"] = ""

\* a link up to its query part: the text before the first '?'
BeforeQuery(u) ==
    IF contains(u, "?")
    THEN SubSeq(u, 1, SetMin({i \in 0..(Len(u) - 1) : CharAt(u, i) = "?"}))
    ELSE u
\* links of the accepted pattern with a query part or a user path segment
DecoratedLinks ==
    {"https://open.spotify.com/playlist/p1?si=abc",
     "http://open.spotify.com/user/u1/playlist/p1"}
\* C20: a web share link of the accepted pattern with a trailing query part
\* resolves to the same canonical (kind, id) as the link without the query; the
\* id passed to the catalog fetch holds neither the query text nor a preceding
\* user path segment.
C20_QueryAndUserStripped ==
    (last.method = "OpenUri" /\ LastUri \in {Some(u) : u \in DecoratedLinks}) =>
        /\ last.returned
        /\ ParseUri(LastUri) = ParseUri(Some(BeforeQuery(Unwrap(LastUri))))
        /\ last.calls # <<>>
        /\ last.calls[1] = <<"api", "playlist", "p1">>
        /\ ~contains(last.calls[1][3], "?")
        /\ ~contains(last.calls[1][3], "/")

\* C21: a notification pushed by update() is emitted at the latest by the poll of
\* the first loop iteration that begins after the push, whatever the number of
\* notifications pending at the push: the poll of the iteration in progress is
\* the only one that may leave it in the channel, so no pending notification has
\* been left pending by two polls.
C21_EmittedByNextIteration ==
    \A i \in 1..Len(waits) : waits[i] <= 1

\* two worlds hold the same queue and player state
SameState(w, v) ==
    /\ w.items = v.items /\ w.current = v.current
    /\ w.shuffle = v.shuffle /\ w.repeat = v.repeat
    /\ w.status = v.status /\ w.progress = v.progress /\ w.volume = v.volume
\* C22: every handler runs on the loop's one thread, so at most one handler is
\* active at any time, and only while the loop is inside conn.incoming; the
\* calls of a handler (the clear, insert and play of an OpenUri among them) are
\* not interleaved with those of another request: when a handler has made all
\* its calls the queue and the player are in the state these calls alone lead
\* to from the state the handler found.
C22_HandlersSerialized ==
    /\ Cardinality(active) <= 1
    /\ (active # {}) <=> (pc = "handling")
    /\ \A a \in active :
          a.done = Len(a.post.calls) => SameState(World, a.post)
\* an OpenUri that has cleared the queue and inserted its tracks and has yet to play
C22_Witness ==
    \E a \in active :
       /\ a.method = "OpenUri"
       /\ a.done = 3 /\ Len(a.post.calls) = 4
       /\ a.post.calls[2] = <<"clear">>
       /\ a.post.calls[4][1] = "play"
       /\ a.pre.items # <<>> /\ items # a.pre.items

\* C23: once the worker running the loop has stopped, only the bridge is gone:
\* every later update() on the owner's thread still completes, so the owner's
\* thread is never brought down by it.
C23_UpdateSurvivesWorkerStop ==
    worker = "panicked" => ui = "running"

====
